---- MODULE Spec2Model ----
(***************************************************************************)
(* AI Meeting Summarizer: the summary generation subsystem (the two-tier   *)
(* orchestrator, the local extractive pipeline), the summary record store  *)
(* and the HTTP handlers that use them, for the two server programs of the *)
(* repository (the Hugging Face "free AI" server and the Groq server).     *)
(*                                                                         *)
(* A JavaScript string is a sequence of one-character strings, so that     *)
(* split, trim, toLowerCase, includes and replace are computed character   *)
(* by character as the code computes them.                                 *)
(***************************************************************************)
EXTENDS Integers, Sequences, FiniteSets, TLC

(* U+2022, the bullet of the template literal `• ${s.trim()}`: one code unit. *)
Bullet == "U+2022"

(* JavaScript's undefined (an absent request field): a value no string equals. *)
Undefined == << "undefined" >>

(* ---------------------------------------------------------------------- *)
(* Bounds of the model.                                                    *)
(* ---------------------------------------------------------------------- *)

(* A transcript of the local pipeline's specification is made of at most
   MaxPieces pieces of the vocabulary. *)
MaxPieces == 3

(* ---------------------------------------------------------------------- *)
(* Program constants.                                                      *)
(* ---------------------------------------------------------------------- *)

(* filter(s => s.trim().length > 10) *)
MinSentenceLen == 10

(* if (cleanWord.length > 3) *)
MinWordLen == 3

(* .slice(0, 10) of the sorted entries *)
TopKeywords == 10

(* .slice(0, 5) of the keyword sentences *)
MaxKeySentences == 5

(* sentences.slice(0, 3) of the fallback *)
FallbackSentences == 3

(* ---------------------------------------------------------------------- *)
(* Characters.                                                             *)
(* ---------------------------------------------------------------------- *)

UpperLetters ==
    << "A", "B", "C", "D", "E", "F", "G", "H", "I", "J", "K", "L", "M",
       "N", "O", "P", "Q", "R", "S", "T", "U", "V", "W", "X", "Y", "Z" >>

LowerLetters ==
    << "a", "b", "c", "d", "e", "f", "g", "h", "i", "j", "k", "l", "m",
       "n", "o", "p", "q", "r", "s", "t", "u", "v", "w", "x", "y", "z" >>

DigitChars == << "0", "1", "2", "3", "4", "5", "6", "7", "8", "9" >>

Range(s) == { s[i] : i \in DOMAIN s }

(* \s of the regular expressions, and what trim() strips. *)
Whitespace == { " ", "\n", "\t", "\r" }

(* [.!?] of text.split(/[.!?]+/) *)
SentenceEnd == { ".", "!", "?" }

(* \w of word.replace(/[^\w]/g, '') *)
WordChars == Range(UpperLetters) \cup Range(LowerLetters) \cup Range(DigitChars) \cup { "_" }

LowerOf ==
    [ c \in Range(UpperLetters) |->
        LowerLetters[CHOOSE i \in DOMAIN UpperLetters : UpperLetters[i] = c] ]

(* ---------------------------------------------------------------------- *)
(* String operations of the JavaScript runtime.                            *)
(* ---------------------------------------------------------------------- *)

Min(a, b) == IF a < b THEN a ELSE b

SetMin(S) == CHOOSE x \in S : \A y \in S : x <= y

SetMax(S) == CHOOSE x \in S : \A y \in S : y <= x

(* String.prototype.toLowerCase *)
toLowerCase(s) ==
    [ i \in DOMAIN s |-> IF s[i] \in DOMAIN LowerOf THEN LowerOf[s[i]] ELSE s[i] ]

(* String.prototype.trim *)
trim(s) ==
    LET keep == { i \in DOMAIN s : s[i] \notin Whitespace }
    IN  IF keep = {} THEN << >> ELSE SubSeq(s, SetMin(keep), SetMax(keep))

(* String.prototype.includes *)
includes(s, sub) ==
    \E i \in 0 .. (Len(s) - Len(sub)) : SubSeq(s, i + 1, i + Len(sub)) = sub

(* String.prototype.split with a regular expression /[set]+/: the pieces
   between the maximal runs of separator characters, the empty piece before
   a leading run and after a trailing run included. *)
split(s, sep) ==
    LET starts == { i \in 1 .. Len(s) + 1 : i = 1 \/ (s[i - 1] \in sep /\ (i > Len(s) \/ s[i] \notin sep)) }
        EndOf(i) ==
            IF \E j \in i .. Len(s) : s[j] \in sep
            THEN SetMin({ j \in i .. Len(s) : s[j] \in sep }) - 1
            ELSE Len(s)
        Nth(k) == CHOOSE i \in starts : Cardinality({ j \in starts : j < i }) = k - 1
    IN  [ k \in 1 .. Cardinality(starts) |-> SubSeq(s, Nth(k), EndOf(Nth(k))) ]

(* Array.prototype.slice(0, n) *)
slice(a, n) == SubSeq(a, 1, Min(n, Len(a)))

(* Array.prototype.join *)
RECURSIVE join(_, _)
join(a, sep) ==
    IF a = << >> THEN << >>
    ELSE IF Len(a) = 1 THEN a[1]
    ELSE a[1] \o sep \o join(Tail(a), sep)

(* The truthiness of a value that is a string or undefined. *)
Truthy(v) == v # Undefined /\ v # << >>

(* ---------------------------------------------------------------------- *)
(* String literals of the code.                                            *)
(* ---------------------------------------------------------------------- *)

StrBullet ==
    << "b", "u", "l", "l", "e", "t" >>

StrAction ==
    << "a", "c", "t", "i", "o", "n" >>

StrSummaryPrefix ==
    << "S", "u", "m", "m", "a", "r", "y", ":", " " >>

StrWill ==
    << "w", "i", "l", "l" >>

StrGoingTo ==
    << "g", "o", "i", "n", "g", " ", "t", "o" >>

StrPlanTo ==
    << "p", "l", "a", "n", " ", "t", "o" >>

StrNeedTo ==
    << "n", "e", "e", "d", " ", "t", "o" >>

StrShould ==
    << "s", "h", "o", "u", "l", "d" >>

StrMust ==
    << "m", "u", "s", "t" >>

(* const actionWords = ['will', 'going to', 'plan to', 'need to', 'should', 'must'] *)
actionWords == << StrWill, StrGoingTo, StrPlanTo, StrNeedTo, StrShould, StrMust >>

(* ---------------------------------------------------------------------- *)
(* generateSimpleSummary: the local extractive pipeline.                   *)
(* ---------------------------------------------------------------------- *)

(* const sentences = text.split(/[.!?]+/).filter(s => s.trim().length > 10) *)
LongEnough(s) == Len(trim(s)) > MinSentenceLen

SentencesOf(text) == SelectSeq(split(text, SentenceEnd), LongEnough)

(* const words = text.toLowerCase().split(/\s+/) *)
WordsOf(text) == split(toLowerCase(text), Whitespace)

(* word.replace(/[^\w]/g, '') *)
IsWordChar(c) == c \in WordChars

cleanWord(word) == SelectSeq(word, IsWordChar)

(* wordCount[cleanWord] = (wordCount[cleanWord] || 0) + 1: the object is the
   sequence of its properties in creation order, each a key and its count. *)
Increment(wordCount, w) ==
    IF \E i \in DOMAIN wordCount : wordCount[i].key = w
    THEN [ i \in DOMAIN wordCount |->
             IF wordCount[i].key = w
             THEN [ wordCount[i] EXCEPT !.count = @ + 1 ]
             ELSE wordCount[i] ]
    ELSE Append(wordCount, [ key |-> w, count |-> 1 ])

RECURSIVE CountFrom(_, _, _)
CountFrom(words, i, wordCount) ==
    IF i > Len(words) THEN wordCount
    ELSE LET w == cleanWord(words[i])
         IN  CountFrom(words, i + 1,
                       IF Len(w) > MinWordLen THEN Increment(wordCount, w) ELSE wordCount)

WordCountOf(words) == CountFrom(words, 1, << >>)

(* An array index of ECMAScript: the canonical decimal form of an integer of
   0 .. 2^32 - 2. Values are compared as digit strings (by length, then
   digit by digit), which needs no arithmetic beyond 32 bits. *)
MaxArrayIndex == << "4", "2", "9", "4", "9", "6", "7", "2", "9", "4" >>

DigitVal(c) == CHOOSE d \in 0 .. 9 : DigitChars[d + 1] = c

NumLess(a, b) ==
    \/ Len(a) < Len(b)
    \/ /\ Len(a) = Len(b)
       /\ \E i \in DOMAIN a :
            /\ DigitVal(a[i]) < DigitVal(b[i])
            /\ \A j \in 1 .. i - 1 : a[j] = b[j]

IsArrayIndex(w) ==
    /\ w # << >>
    /\ \A i \in DOMAIN w : w[i] \in Range(DigitChars)
    /\ (Len(w) = 1 \/ w[1] # "0")
    /\ (w = MaxArrayIndex \/ NumLess(w, MaxArrayIndex))

(* Object.entries: the integer-index keys in ascending numeric order, then
   the other keys in the order of their creation (OrdinaryOwnPropertyKeys). *)
ObjectEntries(wordCount) ==
    LET idx == { i \in DOMAIN wordCount : IsArrayIndex(wordCount[i].key) }
        Before(i) == { j \in idx : NumLess(wordCount[j].key, wordCount[i].key) }
        ints == [ k \in 1 .. Cardinality(idx) |->
                    wordCount[CHOOSE i \in idx : Cardinality(Before(i)) = k - 1] ]
        IsOther(e) == ~IsArrayIndex(e.key)
    IN  ints \o SelectSeq(wordCount, IsOther)

(* .sort(([,a], [,b]) => b - a): by descending count; Array.prototype.sort is
   stable, entries of equal count keep their order. *)
SortByCountDesc(entries) ==
    LET Rank(i) == Cardinality({ j \in DOMAIN entries : entries[j].count > entries[i].count })
                   + Cardinality({ j \in 1 .. i - 1 : entries[j].count = entries[i].count })
    IN  [ k \in DOMAIN entries |-> entries[CHOOSE i \in DOMAIN entries : Rank(i) = k - 1] ]

(* const keywords = Object.entries(wordCount).sort(...).slice(0, 10).map(([word]) => word) *)
KeywordsOf(text) ==
    LET top == slice(SortByCountDesc(ObjectEntries(WordCountOf(WordsOf(text)))), TopKeywords)
    IN  [ k \in DOMAIN top |-> top[k].key ]

(* KeySentencesOf without .slice(0, 5). *)
KeySentencesOf_NoCap(sents, kws) ==
    LET HasKeyword(sentence) ==
            \E k \in DOMAIN kws : includes(toLowerCase(sentence), kws[k])
    IN  SelectSeq(sents, HasKeyword)

(* const keySentences = sentences.filter(sentence =>
     keywords.some(keyword => sentence.toLowerCase().includes(keyword))).slice(0, 5) *)
KeySentencesOf(sents, kws) ==
    LET HasKeyword(sentence) ==
            \E k \in DOMAIN kws : includes(toLowerCase(sentence), kws[k])
    IN  slice(SelectSeq(sents, HasKeyword), MaxKeySentences)

(* const actionSentences = sentences.filter(s =>
     actionWords.some(word => s.toLowerCase().includes(word))) *)
HasActionWord(s) == \E w \in DOMAIN actionWords : includes(toLowerCase(s), actionWords[w])

(* ActionSentencesOf with the cap of the keyword path: .slice(0, 5). *)
ActionSentencesOf_Capped(sents) == slice(SelectSeq(sents, HasActionWord), MaxKeySentences)

ActionSentencesOf(sents) == SelectSeq(sents, HasActionWord)

(* .map(s => `• ${s.trim()}`).join('\n') *)
BulletLines(sents) ==
    join([ i \in DOMAIN sents |-> << Bullet, " " >> \o trim(sents[i]) ], << "\n" >>)

(* customPrompt && customPrompt.toLowerCase().includes(...) *)
PromptHas(customPrompt, word) ==
    Truthy(customPrompt) /\ includes(toLowerCase(customPrompt), word)

(* RenderedOf with "action" tested before "bullet". *)
RenderedOf_ActionFirst(sents, keySents, customPrompt) ==
    IF PromptHas(customPrompt, StrAction) THEN BulletLines(ActionSentencesOf(sents))
    ELSE IF PromptHas(customPrompt, StrBullet) THEN BulletLines(keySents)
    ELSE join(keySents, << " " >>)

(* The if / else if / else of lines 293-303. *)
RenderedOf(sents, keySents, customPrompt) ==
    IF PromptHas(customPrompt, StrBullet) THEN BulletLines(keySents)
    ELSE IF PromptHas(customPrompt, StrAction) THEN BulletLines(ActionSentencesOf(sents))
    ELSE join(keySents, << " " >>)

(* OrFallback without the slice: 'Summary: ' + sentences.join(' '). *)
OrFallback_AllSentences(rendered, sents) ==
    IF rendered # << >> THEN rendered
    ELSE StrSummaryPrefix \o join(sents, << " " >>)

(* OrFallback without its fallback: return summary. *)
OrFallback_NoFallback(rendered, sents) == rendered

(* return summary || 'Summary: ' + sentences.slice(0, 3).join(' ') *)
OrFallback(rendered, sents) ==
    IF rendered # << >> THEN rendered
    ELSE StrSummaryPrefix \o join(slice(sents, FallbackSentences), << " " >>)

generateSimpleSummary(text, customPrompt) ==
    LET sents == SentencesOf(text)
        keySents == KeySentencesOf(sents, KeywordsOf(text))
    IN  OrFallback(RenderedOf(sents, keySents, customPrompt), sents)

(* ---------------------------------------------------------------------- *)
(* Inputs: transcripts, prompts, remote answers, edits.                    *)
(* ---------------------------------------------------------------------- *)

PieceTest ==
    << "T", "h", "i", "s", " ", "i", "s", " ", "a", " ", "t", "e", "s", "t", ".", " " >>

PieceActions ==
    << "W", "e", " ", "w", "i", "l", "l", " ", "f", "i", "n", "i", "s", "h", " ", "t", "h",
       "e", " ", "r", "e", "p", "o", "r", "t", ".", " ", "W", "e", " ", "s", "h", "o", "u",
       "l", "d", " ", "c", "a", "l", "l", " ", "t", "h", "e", " ", "c", "l", "i", "e", "n",
       "t", ".", " " >>

PieceShort ==
    << "H", "i", ".", " ", "O", "k", ".", " ", "G", "o", ".", " " >>

PieceNoKeyword ==
    << "a", " ", "b", " ", "c", " ", "d", " ", "e", " ", "f", " ", "g", " ", "h", ".", " " >>

PieceBudget ==
    << "B", "u", "d", "g", "e", "t", " ", "2", "0", "2", "4", "\n", "r", "e", "v", "i", "e",
       "w", "!", " " >>

PieceManyWords ==
    << "a", "l", "p", "h", "a", " ", "b", "r", "a", "v", "o", " ", "c", "h", "a", "r", "l",
       "i", "e", " ", "d", "e", "l", "t", "a", " ", "e", "c", "h", "o", " ", "f", "o", "x",
       "t", "r", "o", "t", " ", "g", "o", "l", "f", " ", "h", "o", "t", "e", "l", " ", "i",
       "n", "d", "i", "a", " ", "j", "u", "l", "i", "e", "t", " ", "k", "i", "l", "o", " ",
       "l", "i", "m", "a", "?", " " >>

PieceLetters ==
    << "a", " ", "b", " ", "c", " ", "d", " ", "e", " ", "f", ".", " ", "g", " ", "h",
       " ", "i", " ", "j", " ", "k", " ", "l", ".", " " >>

Pieces ==
    << PieceTest, PieceActions, PieceShort, PieceNoKeyword, PieceBudget, PieceManyWords,
       PieceLetters >>

RECURSIVE Concat(_)
Concat(ps) == IF ps = << >> THEN << >> ELSE Pieces[Head(ps)] \o Concat(Tail(ps))

(* Every transcript made of at most n pieces, the empty transcript included. *)
TextsUpTo(n) ==
    { Concat(ps) : ps \in UNION { [ 1 .. k -> DOMAIN Pieces ] : k \in 0 .. n } }

PromptBullets ==
    << "S", "u", "m", "m", "a", "r", "i", "z", "e", " ", "i", "n", " ", "b", "u", "l", "l",
       "e", "t", " ", "p", "o", "i", "n", "t", "s" >>

PromptActions ==
    << "g", "i", "v", "e", " ", "m", "e", " ", "a", "c", "t", "i", "o", "n", " ", "i", "t",
       "e", "m", "s" >>

PromptBoth ==
    << "A", "C", "T", "I", "O", "N", " ", "i", "t", "e", "m", "s", " ", "a", "s", " ", "B",
       "u", "l", "l", "e", "t", "s" >>

PromptPlain ==
    << "s", "h", "o", "r", "t", " ", "r", "e", "c", "a", "p" >>

Prompts == { Undefined, << >>, PromptBullets, PromptActions, PromptBoth, PromptPlain }

TextBlank ==
    << " ", " " >>

StrRemoteSummary ==
    << "R", "e", "m", "o", "t", "e", " ", "s", "u", "m", "m", "a", "r", "y" >>

StrUnable ==
    << "U", "n", "a", "b", "l", "e", " ", "t", "o", " ", "g", "e", "n", "e", "r", "a", "t",
       "e", " ", "s", "u", "m", "m", "a", "r", "y" >>

StrEditA ==
    << "E", "d", "i", "t", " ", "A" >>

StrEditB ==
    << "E", "d", "i", "t", " ", "B", "\n" >>

(* req.body.text of a Generate request: absent, empty, whitespace only, or a
   transcript. *)
ReqTexts == { Undefined, << >>, TextBlank, PieceShort, PieceTest }

(* req.body.customPrompt of a Generate request. *)
ReqPrompts == { Undefined, PromptBullets }

(* What the remote call comes back with: it throws (network error, timeout,
   error status), it answers without the summary field, or it answers with
   a summary string, which may be empty. *)
RemoteOutcomes ==
    { [ kind |-> "throw", value |-> Undefined ],
      [ kind |-> "answer", value |-> Undefined ],
      [ kind |-> "answer", value |-> << >> ],
      [ kind |-> "answer", value |-> StrRemoteSummary ] }

(* req.body.editedSummary of an Edit request. *)
EditValues == { Undefined, << >>, StrEditA, StrEditB }

(* ---------------------------------------------------------------------- *)
(* Bounds of the server's specification.                                   *)
(* ---------------------------------------------------------------------- *)

(* Generate requests of one behaviour, each with its own handler activation. *)
MaxReqs == 2

(* The values uuidv4() can return. *)
NumIds == 2

Reqs == 1 .. MaxReqs

Ids == 1 .. NumIds

(* ---------------------------------------------------------------------- *)
(* State.                                                                  *)
(* ---------------------------------------------------------------------- *)

VARIABLES
    text,           \* generateSimpleSummary: its argument text
    customPrompt,   \* generateSimpleSummary: its argument customPrompt
    sentences,      \* generateSimpleSummary: const sentences
    keywords,       \* generateSimpleSummary: const keywords
    keySentences,   \* generateSimpleSummary: const keySentences
    summary,        \* generateSimpleSummary: the value returned
    returned,       \* whether generateSimpleSummary has returned
    variant,        \* the server program running: "free" or "groq"
    apiKey,         \* whether the API key of the remote service is set
    store,          \* the Summary collection, in insertion order
    req,            \* the activations of app.post('/api/summarize')
    lastEdit,       \* the last response of app.put('/api/summaries/:id')
    mail,           \* the activation of app.post('/api/send-email')
    client          \* the state of the React component App

localVars == << text, customPrompt, sentences, keywords, keySentences, summary, returned >>

serverVars == << variant, apiKey, store, req, lastEdit >>

vars == << localVars, serverVars, mail, client >>

(* An activation of the Generate handler. *)
IdleReq ==
    [ pc            |-> "idle",      \* idle, remote (awaiting the call), save, done
      text          |-> Undefined,
      customPrompt  |-> Undefined,
      calls         |-> 0,           \* calls issued to the remote service
      outcome       |-> "none",      \* none, throw, nofield, summary
      tier          |-> "none",      \* what produced summary: remote, local, fixed
      summary       |-> Undefined,
      status        |-> 0,           \* the response's status, 0 before it
      id            |-> 0,           \* the response's id
      respSummary   |-> Undefined ]  \* the response's summary

NoEdit == [ status |-> 0 ]

(* The activation of the Distribute handler: n recipients, sends[i] the
   state of the i-th transporter.sendMail promise. *)
IdleMail ==
    [ pc      |-> "idle",       \* idle, sending (awaiting Promise.all), done
      n       |-> 0,
      summary |-> Undefined,    \* req.body.summary
      subject |-> Undefined,    \* emailSubject of the messages
      sends   |-> << >>,        \* each pending, sent or failed
      status  |-> 0 ]           \* the response's status, 0 before it

(* The path segment of a PUT whose id is the JavaScript value undefined:
   .../api/summaries/undefined, which is no record's uuid. *)
UndefinedId == 0

(* No PUT /api/summaries/:id answered since the messages were last cleared. *)
NoPut == [ id |-> UndefinedId, editedSummary |-> << >>, dbOk |-> FALSE, status |-> 0 ]

(* useState(''): text, customPrompt, summary, editedSummary, loading, error
   and success of App; the POST it awaits, the POST whose answer it displays
   and its last PUT. *)
IdleClient ==
    [ text          |-> << >>,
      customPrompt  |-> << >>,
      summary       |-> << >>,
      editedSummary |-> << >>,
      loading       |-> FALSE,
      error         |-> "",
      success       |-> "",
      awaited       |-> 0,      \* the request of the pending axios.post
      shown         |-> 0,      \* the request whose summary is on display
      put           |-> NoPut ]

LocalIdle ==
    /\ text = << >>
    /\ customPrompt = Undefined
    /\ sentences = << >>
    /\ keywords = << >>
    /\ keySentences = << >>
    /\ summary = << >>
    /\ returned = FALSE

ServerIdle ==
    /\ store = << >>
    /\ req = [ r \in Reqs |-> IdleReq ]
    /\ lastEdit = NoEdit

(* ---------------------------------------------------------------------- *)
(* The record store: the mongoose model Summary.                           *)
(* ---------------------------------------------------------------------- *)

(* SchemaAccepts without the unique index on id. *)
SchemaAccepts_NoUnique(doc) ==
    /\ Truthy(doc.originalText)
    /\ Truthy(doc.generatedSummary)

(* summarySchema: id, originalText and generatedSummary are required (a
   required String rejects undefined and the empty string), id is unique. *)
SchemaAccepts(doc) ==
    /\ Truthy(doc.originalText)
    /\ Truthy(doc.generatedSummary)
    /\ \A i \in DOMAIN store : store[i].id # doc.id

(* createdAt: { default: Date.now }: the clock's reading when the document is
   constructed, one tick after the latest document's. *)
DateNow == IF store = << >> THEN 1 ELSE store[Len(store)].createdAt + 1

(* new Summary({ id, originalText: text, customPrompt, generatedSummary: summary }) *)
NewSummary(id, r) ==
    [ id               |-> id,
      originalText     |-> req[r].text,
      customPrompt     |-> req[r].customPrompt,
      generatedSummary |-> req[r].summary,
      editedSummary    |-> Undefined,
      createdAt        |-> DateNow ]

(* findOneAndUpdate writing the edit over the generated summary as well. *)
findOneAndUpdate_Overwrite(id, editedSummary) ==
    [ i \in DOMAIN store |->
        IF store[i].id = id
        THEN [ store[i] EXCEPT !.editedSummary = editedSummary,
                               !.generatedSummary = editedSummary ]
        ELSE store[i] ]

(* Summary.findOneAndUpdate({ id }, { editedSummary }, { new: true }) *)
findOneAndUpdate(id, editedSummary) ==
    [ i \in DOMAIN store |->
        IF store[i].id = id /\ \A j \in 1 .. i - 1 : store[j].id # id
        THEN [ store[i] EXCEPT !.editedSummary = editedSummary ]
        ELSE store[i] ]

Found(id) == \E i \in DOMAIN store : store[i].id = id

(* ---------------------------------------------------------------------- *)
(* app.post('/api/summarize')                                              *)
(* ---------------------------------------------------------------------- *)

(* TextMissing without the trim: if (!text). *)
TextMissing_NoTrim(t) == ~Truthy(t)

(* if (!text || text.trim().length === 0) *)
TextMissing(t) == ~Truthy(t) \/ Len(trim(t)) = 0

(* generateSummaryWithFreeAI: if (process.env.HUGGINGFACE_API_KEY) the call is
   issued; server-groq.js issues its call unconditionally. *)
CallsRemote == variant = "groq" \/ apiKey

(* response.data && response.data[0] && response.data[0].summary_text;
   completion.choices[0]?.message?.content *)
SummaryField(o) == o.kind = "answer" /\ Truthy(o.value)

(* The handler up to its first await: validation, then either the remote
   call is issued or (no key) the local pipeline runs. *)
Generate(r, t, p) ==
    /\ req[r].pc = "idle"
    /\ req' = [ req EXCEPT ![r] =
                  IF TextMissing(t)
                  THEN [ @ EXCEPT !.pc = "done", !.text = t, !.customPrompt = p,
                                  !.status = 400 ]
                  ELSE IF CallsRemote
                  THEN [ @ EXCEPT !.pc = "remote", !.text = t, !.customPrompt = p,
                                  !.calls = @ + 1 ]
                  ELSE [ @ EXCEPT !.pc = "save", !.text = t, !.customPrompt = p,
                                  !.tier = "local",
                                  !.summary = generateSimpleSummary(t, p) ] ]
    /\ UNCHANGED << localVars, variant, apiKey, store, lastEdit, mail >>

(* FreeAfterRemote reading the transcript and the prompt from a place shared
   by the requests (the first request's), not from its own arguments. *)
FreeAfterRemote_Shared(q, o) ==
    IF SummaryField(o)
    THEN [ q EXCEPT !.pc = "save", !.outcome = "summary", !.tier = "remote",
                    !.summary = o.value ]
    ELSE [ q EXCEPT !.pc = "save",
                    !.outcome = IF o.kind = "throw" THEN "throw" ELSE "nofield",
                    !.tier = "local",
                    !.summary = generateSimpleSummary(req[1].text, req[1].customPrompt) ]

(* part_000: the remote summary when the field is there, else (no field, or
   the catch block) generateSimpleSummary. *)
FreeAfterRemote(q, o) ==
    IF SummaryField(o)
    THEN [ q EXCEPT !.pc = "save", !.outcome = "summary", !.tier = "remote",
                    !.summary = o.value ]
    ELSE [ q EXCEPT !.pc = "save",
                    !.outcome = IF o.kind = "throw" THEN "throw" ELSE "nofield",
                    !.tier = "local",
                    !.summary = generateSimpleSummary(q.text, q.customPrompt) ]

(* server-groq.js: content || 'Unable to generate summary'; a call that
   throws lands in the handler's catch block: 500. *)
GroqAfterRemote(q, o) ==
    IF o.kind = "throw"
    THEN [ q EXCEPT !.pc = "done", !.outcome = "throw", !.status = 500 ]
    ELSE IF SummaryField(o)
    THEN [ q EXCEPT !.pc = "save", !.outcome = "summary", !.tier = "remote",
                    !.summary = o.value ]
    ELSE [ q EXCEPT !.pc = "save", !.outcome = "nofield", !.tier = "fixed",
                    !.summary = StrUnable ]

(* The awaited remote call settles. *)
RemoteReturn(r, o) ==
    /\ req[r].pc = "remote"
    /\ req' = [ req EXCEPT ![r] =
                  IF variant = "free" THEN FreeAfterRemote(@, o) ELSE GroqAfterRemote(@, o) ]
    /\ UNCHANGED << localVars, variant, apiKey, store, lastEdit, mail >>

(* const id = uuidv4(); new Summary(...); await newSummary.save(); res.json;
   a save that fails (validation, duplicate id, database error) lands in the
   catch block: 500. *)
Save(r, id, dbOk) ==
    /\ req[r].pc = "save"
    /\ LET doc == NewSummary(id, r)
       IN  IF dbOk /\ SchemaAccepts(doc)
           THEN /\ store' = Append(store, doc)
                /\ req' = [ req EXCEPT ![r] =
                              [ @ EXCEPT !.pc = "done", !.status = 200, !.id = id,
                                         !.respSummary = req[r].summary ] ]
           ELSE /\ store' = store
                /\ req' = [ req EXCEPT ![r] = [ @ EXCEPT !.pc = "done", !.status = 500 ] ]
    /\ UNCHANGED << localVars, variant, apiKey, lastEdit, mail >>

(* ---------------------------------------------------------------------- *)
(* app.put('/api/summaries/:id')                                           *)
(* ---------------------------------------------------------------------- *)

(* EditStatus with the lookup before the validation. *)
EditStatus_LookupFirst(id, editedSummary, dbOk) ==
    IF ~dbOk THEN 500
    ELSE IF ~Found(id) THEN 404
    ELSE IF ~Truthy(editedSummary) THEN 400
    ELSE 200

(* if (!editedSummary) 400; findOneAndUpdate throwing: 500; if
   (!updatedSummary) 404; else the success response. *)
EditStatus(id, editedSummary, dbOk) ==
    IF ~Truthy(editedSummary) THEN 400
    ELSE IF ~dbOk THEN 500
    ELSE IF ~Found(id) THEN 404
    ELSE 200

Edit(id, editedSummary, dbOk) ==
    /\ store' = IF EditStatus(id, editedSummary, dbOk) = 200
                THEN findOneAndUpdate(id, editedSummary)
                ELSE store
    /\ lastEdit' = [ status |-> EditStatus(id, editedSummary, dbOk) ]
    /\ UNCHANGED << localVars, variant, apiKey, req, mail >>

(* ---------------------------------------------------------------------- *)
(* The server.                                                             *)
(* ---------------------------------------------------------------------- *)

Init ==
    /\ LocalIdle
    /\ variant \in { "free", "groq" }
    /\ apiKey \in BOOLEAN
    /\ ServerIdle
    /\ mail = IdleMail
    /\ client = IdleClient

Next ==
    \/ \E r \in Reqs, t \in ReqTexts, p \in ReqPrompts :
          Generate(r, t, p) /\ UNCHANGED client
    \/ \E r \in Reqs, o \in RemoteOutcomes : RemoteReturn(r, o) /\ UNCHANGED client
    \/ \E r \in Reqs, id \in Ids, dbOk \in BOOLEAN : Save(r, id, dbOk) /\ UNCHANGED client
    \/ \E id \in Ids, e \in EditValues, dbOk \in BOOLEAN :
          Edit(id, e, dbOk) /\ UNCHANGED client

Spec == Init /\ [][Next]_vars

(* The scheduling the code guarantees: a handler that awaits newSummary.save()
   is resumed, the driver settles the save with a result or an error.  The
   remote call is made without a timeout (axios.post has none configured, nor
   has groq.chat.completions.create), so nothing obliges RemoteReturn. *)
FairSpec ==
    Spec /\ \A r \in Reqs :
              WF_vars(\E id \in Ids, dbOk \in BOOLEAN : Save(r, id, dbOk) /\ UNCHANGED client)

(* ---------------------------------------------------------------------- *)
(* app.post('/api/send-email')                                             *)
(* ---------------------------------------------------------------------- *)

(* Recipients of one Distribute request, at most. *)
MaxRecipients == 3

StrDefaultSubject ==
    << "M", "e", "e", "t", "i", "n", "g", " ", "S", "u", "m", "m", "a", "r", "y", " ", "S",
       "h", "a", "r", "e", "d", " ", "w", "i", "t", "h", " ", "Y", "o", "u" >>

StrSubject ==
    << "N", "o", "t", "e", "s" >>

(* req.body.recipientEmails: absent (or no array), or an array of addresses. *)
RecipientLists ==
    { Undefined } \cup { [ i \in 1 .. k |-> ToString(i) ] : k \in 0 .. MaxRecipients }

(* req.body.subject and req.body.summary. *)
Subjects == { Undefined, StrSubject }

MailSummaries == { Undefined, << >>, StrRemoteSummary }

(* if (!recipientEmails || !Array.isArray(recipientEmails) ||
       recipientEmails.length === 0); if (!summary) *)
MailInvalid(recipientEmails, summ) ==
    \/ recipientEmails = Undefined
    \/ Len(recipientEmails) = 0
    \/ ~Truthy(summ)

(* nodemailer.createTransport (part_000) returns a transporter; nodemailer has
   no createTransporter (server-groq.js), the call throws a TypeError. *)
TransporterCreated == variant = "free"

(* Promise.all settling with the handler's answer, 0 while it is pending. *)
PromiseAll_AllSettled(sends) ==
    IF \E i \in DOMAIN sends : sends[i] = "pending" THEN 0 ELSE 200

(* await Promise.all(emailPromises): rejected as soon as one send is
   rejected (the catch block: 500), fulfilled once every send is (200). *)
PromiseAll(sends) ==
    IF \E i \in DOMAIN sends : sends[i] = "failed" THEN 500
    ELSE IF \A i \in DOMAIN sends : sends[i] = "sent" THEN 200
    ELSE 0

(* The handler up to its await: validation, the transporter, and one
   sendMail per recipient. *)
SendEmail(recipientEmails, subject, summ) ==
    /\ mail.pc = "idle"
    /\ mail' =
         IF MailInvalid(recipientEmails, summ)
         THEN [ mail EXCEPT !.pc = "done", !.status = 400, !.summary = summ,
                            !.n = IF recipientEmails = Undefined THEN 0
                                  ELSE Len(recipientEmails) ]
         ELSE IF ~TransporterCreated
         THEN [ mail EXCEPT !.pc = "done", !.status = 500, !.summary = summ,
                            !.n = Len(recipientEmails) ]
         ELSE [ mail EXCEPT !.pc = "sending", !.n = Len(recipientEmails),
                            !.summary = summ,
                            !.subject = IF Truthy(subject) THEN subject
                                        ELSE StrDefaultSubject,
                            !.sends = [ i \in DOMAIN recipientEmails |-> "pending" ] ]
    /\ UNCHANGED << localVars, serverVars, client >>

(* One sendMail promise settles; the handler answers when Promise.all does,
   the sends still pending then go on. *)
SendSettles(i, ok) ==
    /\ i \in DOMAIN mail.sends
    /\ mail.sends[i] = "pending"
    /\ LET sends == [ mail.sends EXCEPT ![i] = IF ok THEN "sent" ELSE "failed" ]
       IN  mail' =
             IF mail.pc = "sending" /\ PromiseAll(sends) # 0
             THEN [ mail EXCEPT !.sends = sends, !.pc = "done", !.status = PromiseAll(sends) ]
             ELSE [ mail EXCEPT !.sends = sends ]
    /\ UNCHANGED << localVars, serverVars, client >>

MailInit ==
    /\ LocalIdle
    /\ variant \in { "free", "groq" }
    /\ apiKey \in BOOLEAN
    /\ ServerIdle
    /\ mail = IdleMail
    /\ client = IdleClient

MailNext ==
    \/ \E rs \in RecipientLists, sj \in Subjects, sm \in MailSummaries : SendEmail(rs, sj, sm)
    \/ \E i \in 1 .. MaxRecipients, ok \in BOOLEAN : SendSettles(i, ok)

MailSpec == MailInit /\ [][MailNext]_vars

(* ---------------------------------------------------------------------- *)
(* client/src/App.js: the page in front of the server.                     *)
(* ---------------------------------------------------------------------- *)

(* What the user types into the transcript and the prompt fields. *)
ClientTexts == { PieceTest, PieceShort }

ClientPrompts == { << >>, PromptBullets }

(* What the user leaves in the edited-summary field. *)
ClientEdits == { << >>, StrEditA, StrEditB }

(* error.response?.data?.error of a failed POST /api/summarize. *)
SummarizeError(status) ==
    IF status = 400 THEN "Text is required" ELSE "Failed to generate summary"

(* error.response?.data?.error of a failed PUT /api/summaries/:id. *)
UpdateError(status) ==
    CASE status = 400 -> "Edited summary is required"
      [] status = 404 -> "Summary not found"
      [] OTHER -> "Failed to update summary"

(* summary.id where summary is response.data.summary, a string: a string has
   no property id. *)
IdOfSummary(summ) == UndefinedId

(* handleGenerateSummary up to its await: the button is enabled when no
   request is pending and the text is not blank; the POST carries text.trim()
   and customPrompt.trim() || undefined, and the server's handler starts. *)
ClickGenerate(r, t, p) ==
    /\ ~client.loading
    /\ Len(trim(t)) > 0
    /\ req[r].pc = "idle"
    /\ \A q \in Reqs : req[q].pc = "idle" => r <= q
    /\ Generate(r, trim(t), IF trim(p) = << >> THEN Undefined ELSE trim(p))
    /\ client' = [ client EXCEPT !.text = t, !.customPrompt = p, !.loading = TRUE,
                                 !.error = "", !.success = "", !.awaited = r,
                                 !.put = NoPut ]

(* The rest of handleGenerateSummary: the awaited POST is answered. *)
GenerateResponse ==
    /\ client.loading
    /\ req[client.awaited].pc = "done"
    /\ client' =
         IF req[client.awaited].status = 200
         THEN [ client EXCEPT !.summary = req[client.awaited].respSummary,
                              !.editedSummary = req[client.awaited].respSummary,
                              !.success = "Summary generated successfully!",
                              !.shown = client.awaited, !.put = NoPut,
                              !.loading = FALSE, !.awaited = 0 ]
         ELSE [ client EXCEPT !.error = SummarizeError(req[client.awaited].status),
                              !.loading = FALSE, !.awaited = 0 ]
    /\ UNCHANGED << localVars, serverVars, mail >>

(* onChange of the edited-summary field, rendered when summary is not empty. *)
EditText(e) ==
    /\ Truthy(client.summary)
    /\ client.editedSummary # e
    /\ client' = [ client EXCEPT !.editedSummary = e ]
    /\ UNCHANGED << localVars, serverVars, mail >>

(* handleSaveEdits: the button is enabled when the edited text is not blank;
   the PUT goes to /api/summaries/${summary.id} and the server's handler
   answers it. *)
ClickSaveEdits(dbOk) ==
    /\ Truthy(client.summary)
    /\ Len(trim(client.editedSummary)) > 0
    /\ LET id == IdOfSummary(client.summary)
           e == trim(client.editedSummary)
           status == EditStatus(id, e, dbOk)
       IN  /\ Edit(id, e, dbOk)
           /\ client' =
                [ client EXCEPT
                    !.put = [ id |-> id, editedSummary |-> e, dbOk |-> dbOk,
                              status |-> status ],
                    !.error = IF status = 200 THEN "" ELSE UpdateError(status),
                    !.success = IF status = 200 THEN "Summary updated successfully!"
                                ELSE "" ]

ClientInit == Init

ClientNext ==
    \/ \E r \in Reqs, t \in ClientTexts, p \in ClientPrompts : ClickGenerate(r, t, p)
    \/ \E r \in Reqs, o \in RemoteOutcomes : RemoteReturn(r, o) /\ UNCHANGED client
    \/ \E r \in Reqs, id \in Ids, dbOk \in BOOLEAN : Save(r, id, dbOk) /\ UNCHANGED client
    \/ GenerateResponse
    \/ \E e \in ClientEdits : EditText(e)
    \/ \E dbOk \in BOOLEAN : ClickSaveEdits(dbOk)

ClientSpec == ClientInit /\ [][ClientNext]_vars

(* ---------------------------------------------------------------------- *)
(* The local pipeline alone: one call of generateSimpleSummary.            *)
(* ---------------------------------------------------------------------- *)

LocalInit ==
    /\ text \in TextsUpTo(MaxPieces)
    /\ customPrompt \in Prompts
    /\ sentences = << >>
    /\ keywords = << >>
    /\ keySentences = << >>
    /\ summary = << >>
    /\ returned = FALSE
    /\ variant = "free"
    /\ apiKey = FALSE
    /\ ServerIdle
    /\ mail = IdleMail
    /\ client = IdleClient

RunLocal ==
    /\ ~returned
    /\ sentences' = SentencesOf(text)
    /\ keywords' = KeywordsOf(text)
    /\ keySentences' = KeySentencesOf(sentences', keywords')
    /\ summary' = OrFallback(RenderedOf(sentences', keySentences', customPrompt), sentences')
    /\ returned' = TRUE
    /\ UNCHANGED << text, customPrompt, serverVars, mail, client >>

LocalNext == RunLocal

LocalSpec == LocalInit /\ [][LocalNext]_vars

(* ---------------------------------------------------------------------- *)
(* Properties.                                                             *)
(* ---------------------------------------------------------------------- *)

(* The lines of a string: the pieces between its line feeds. *)
LinesOf(s) ==
    LET nl == { i \in DOMAIN s : s[i] = "\n" }
        starts == { 1 } \cup { i + 1 : i \in nl }
        EndOf(i) == IF \E j \in nl : j >= i THEN SetMin({ j \in nl : j >= i }) - 1 ELSE Len(s)
    IN  { SubSeq(s, i, EndOf(i)) : i \in starts }

StartsWithBullet(line) == Len(line) >= 2 /\ line[1] = Bullet /\ line[2] = " "

(* The remote call of activation r was issued with the key set and failed:
   it threw, or its answer lacks the summary field. *)
RemoteFailed(r) == apiKey /\ req[r].outcome \in { "throw", "nofield" }

(* C1: a Generate request with non-empty text, the credential configured and
   a failed remote call is never answered with an error caused by that
   failure (a 500 without any summary having been produced), and its success
   response carries the local pipeline's summary, which is not empty. *)
C1_RemoteFailureAbsorbed ==
    \A r \in Reqs :
        (RemoteFailed(r) /\ req[r].pc = "done") =>
            /\ ~(req[r].status = 500 /\ req[r].tier = "none")
            /\ req[r].status = 200 =>
                 /\ req[r].respSummary = generateSimpleSummary(req[r].text, req[r].customPrompt)
                 /\ req[r].respSummary # << >>

(* C2: every persisted record has a non-empty generatedSummary, and every
   summary the local pipeline has produced for a request is a non-empty
   string. *)
C2_GeneratedSummaryNonEmpty ==
    /\ \A i \in DOMAIN store : Truthy(store[i].generatedSummary)
    /\ \A r \in Reqs : req[r].tier = "local" => Truthy(req[r].summary)

(* C2's case: a record produced by the local tier from a transcript with a
   sentence of more than 10 characters, and one produced by the remote tier. *)
C2_Witness ==
    /\ \E r \in Reqs :
         /\ req[r].status = 200 /\ req[r].tier = "local"
         /\ SentencesOf(req[r].text) # << >>
         /\ \E i \in DOMAIN store : store[i].id = req[r].id
    /\ \E r \in Reqs : req[r].status = 200 /\ req[r].tier = "remote"

(* C3: with "bullet" in the prompt, every line of the local pipeline's
   output begins with the bullet marker and a space. *)
C3_BulletEveryLine ==
    (returned /\ PromptHas(customPrompt, StrBullet)) =>
        \A line \in LinesOf(summary) : StartsWithBullet(line)

(* C4: with "action" and not "bullet" in the prompt, every sentence of the
   transcript that the local pipeline's output contains matches an action
   marker. *)
C4_ActionOnlyMarkerSentences ==
    (returned /\ PromptHas(customPrompt, StrAction) /\ ~PromptHas(customPrompt, StrBullet)) =>
        \A i \in DOMAIN sentences :
            includes(summary, trim(sentences[i])) => HasActionWord(sentences[i])

(* C5: with an empty prompt and no sentence passing the length filter, the
   output is "Summary: " followed by the first 3 raw sentences of the
   transcript joined by a space. *)
C5_ShortTranscriptFallback ==
    (returned /\ ~Truthy(customPrompt) /\ sentences = << >>) =>
        summary = StrSummaryPrefix
                    \o join(slice(split(text, SentenceEnd), FallbackSentences), << " " >>)

(* The cleaned words of a transcript that are long enough, in order of
   occurrence, each as often as it occurs. *)
CleanedWords(t) ==
    LET cleaned == [ i \in DOMAIN WordsOf(t) |-> cleanWord(WordsOf(t)[i]) ]
        IsLong(w) == Len(w) > MinWordLen
    IN  SelectSeq(cleaned, IsLong)

(* C6: the keyword list is the top 10 cleaned words by descending count,
   words of equal count in the order of their first occurrence. *)
C6_KeywordsRankedByFirstOccurrence ==
    returned =>
        LET cw == CleanedWords(text)
            Occ(w) == Cardinality({ i \in DOMAIN cw : cw[i] = w })
            First(w) == SetMin({ i \in DOMAIN cw : cw[i] = w })
            Precedes(a, b) == Occ(a) > Occ(b) \/ (Occ(a) = Occ(b) /\ First(a) < First(b))
        IN  /\ Len(keywords) = Min(TopKeywords, Cardinality(Range(cw)))
            /\ Range(keywords) \subseteq Range(cw)
            /\ \A i, j \in DOMAIN keywords : i < j => Precedes(keywords[i], keywords[j])
            /\ \A w \in Range(cw) \ Range(keywords) :
                 \A k \in DOMAIN keywords : Precedes(keywords[k], w)

(* The fields of a record that are set at creation. *)
CreatedFields(doc) ==
    << doc.id, doc.originalText, doc.customPrompt, doc.generatedSummary, doc.createdAt >>

(* C7: no step changes a stored record's id, originalText, customPrompt,
   generatedSummary or createdAt, and an Edit of one id leaves every record
   of another id as it was and sets the edited record's editedSummary. *)
C7_EditChangesOnlyEditedSummary ==
    [][ /\ \A i \in DOMAIN store :
             i \in DOMAIN store' /\ CreatedFields(store'[i]) = CreatedFields(store[i])
        /\ \A id \in Ids, e \in EditValues, dbOk \in BOOLEAN :
             Edit(id, e, dbOk) =>
                 /\ Len(store') = Len(store)
                 /\ \A i \in DOMAIN store :
                      IF store[i].id = id /\ lastEdit'.status = 200
                      THEN store'[i].editedSummary = e
                      ELSE store'[i] = store[i] ]_vars

(* C7's case: a record that has been edited successfully. *)
C7_Witness ==
    /\ lastEdit.status = 200
    /\ Len(store) = 2
    /\ store[1].editedSummary = StrEditB

(* C8: every Generate request answered with success has exactly one record,
   whose id is the returned id, whose originalText is the request's text and
   whose generatedSummary is the returned summary; ids are distinct across
   records; there are as many records as requests answered with success. *)
C8_OneRecordPerSuccess ==
    /\ \A r \in Reqs :
         req[r].status = 200 =>
             /\ Cardinality({ i \in DOMAIN store : store[i].id = req[r].id }) = 1
             /\ \A i \in DOMAIN store :
                  store[i].id = req[r].id =>
                      /\ store[i].originalText = req[r].text
                      /\ store[i].generatedSummary = req[r].respSummary
    /\ \A i, j \in DOMAIN store : store[i].id = store[j].id => i = j
    /\ Len(store) = Cardinality({ r \in Reqs : req[r].status = 200 })

(* C8's case: two requests answered with success, each with its own record. *)
C8_Witness ==
    /\ Len(store) = 2
    /\ \A r \in Reqs : req[r].status = 200
    /\ req[1].id # req[2].id

(* C9: a Generate request whose text is missing, empty or whitespace only is
   answered with 400, issues no remote call and leaves the store unchanged;
   a save that fails is answered with 500 and stores nothing. *)
C9_InvalidTextAndSaveFailure ==
    [][ /\ \A r \in Reqs, t \in ReqTexts, p \in ReqPrompts :
             (Generate(r, t, p) /\ (t = Undefined \/ t = << >> \/ trim(t) = << >>)) =>
                 /\ req'[r].pc = "done"
                 /\ req'[r].status = 400
                 /\ req'[r].calls = 0
                 /\ store' = store
        /\ \A r \in Reqs, id \in Ids :
             Save(r, id, FALSE) => (req'[r].status = 500 /\ store' = store) ]_vars

(* C9's case: a request with whitespace-only text answered, and a request
   whose save failed answered. *)
C9_Witness ==
    /\ \E r \in Reqs : req[r].pc = "done" /\ req[r].text = TextBlank
    /\ \E r \in Reqs : req[r].pc = "done" /\ req[r].status = 500 /\ req[r].tier # "none"

(* C10: an Edit request with an empty editedSummary is answered with 400,
   whatever the id; one with a non-empty editedSummary and an id that no
   record has is answered with 404 (the store answering the lookup); in both
   cases the store is unchanged. *)
C10_EditRejections ==
    [][ \A id \in Ids, e \in EditValues, dbOk \in BOOLEAN :
            Edit(id, e, dbOk) =>
                /\ (e = Undefined \/ e = << >>) =>
                       (lastEdit'.status = 400 /\ store' = store)
                /\ (e # Undefined /\ e # << >> /\ dbOk /\ \A i \in DOMAIN store : store[i].id # id) =>
                       (lastEdit'.status = 404 /\ store' = store) ]_vars

(* C10's case: an Edit answered with 404 while the store holds a record. *)
C10_Witness == lastEdit.status = 404 /\ store # << >>

(* C11: a Distribute request with recipients and a summary is answered with
   success exactly when each of its n sends has succeeded, and with the one
   status 500 as soon as a send has failed, whatever the other sends did. *)
C11_AllOrNothing ==
    (mail.pc # "idle" /\ mail.n >= 1 /\ Truthy(mail.summary)) =>
        /\ mail.status = 200 <=>
             (Len(mail.sends) = mail.n /\ \A i \in DOMAIN mail.sends : mail.sends[i] = "sent")
        /\ (\E i \in DOMAIN mail.sends : mail.sends[i] = "failed") => mail.status = 500
        /\ mail.status \in { 0, 200, 500 }

(* C11's case: 3 recipients, one send failed, another one delivered, the
   request answered with 500. *)
C11_Witness ==
    /\ mail.n = 3
    /\ mail.status = 500
    /\ Cardinality({ i \in DOMAIN mail.sends : mail.sends[i] = "failed" }) = 1
    /\ \E i \in DOMAIN mail.sends : mail.sends[i] = "sent"

(* C12: a Generate request that waits for the remote collaborator is
   eventually answered (Done or an error response), whether or not the
   collaborator ever answers. *)
C12_GenerateTerminates ==
    \A r \in Reqs : (req[r].pc = "remote") ~> (req[r].pc = "done")

(* Default mode: the prompt is absent or empty, or names neither "bullet" nor
   "action". *)
DefaultMode ==
    ~PromptHas(customPrompt, StrBullet) /\ ~PromptHas(customPrompt, StrAction)

(* C13 as stated: in default mode, when no sentence contains a keyword while
   the transcript has sentences, the output is the first 3 sentences of the
   transcript (as split, or those that passed the length filter) joined by a
   single space, and nothing else. *)
C13_FallbackNothingAdded ==
    (returned /\ DefaultMode /\ keySentences = << >> /\ sentences # << >>) =>
        summary \in { join(slice(sentences, FallbackSentences), << " " >>),
                      join(slice(split(text, SentenceEnd), FallbackSentences), << " " >>) }

(* C13 amended: in default mode, when no sentence contains a keyword, the
   output is the literal "Summary: " followed by the first 3 sentences that
   passed the length filter, joined by a single space. *)
C13_FallbackWithPrefix ==
    (returned /\ DefaultMode /\ keySentences = << >>) =>
        /\ SubSeq(summary, 1, Len(StrSummaryPrefix)) = StrSummaryPrefix
        /\ SubSeq(summary, Len(StrSummaryPrefix) + 1, Len(summary))
             = join([ i \in 1 .. Min(FallbackSentences, Len(sentences)) |-> sentences[i] ],
                    << " " >>)

(* C13's case: no keyword, more than 3 sentences to fall back to. *)
C13_Witness ==
    /\ returned /\ DefaultMode
    /\ keySentences = << >>
    /\ Len(sentences) > FallbackSentences
    /\ Len(summary) > Len(StrSummaryPrefix)

(* C14: a Generate request calls the remote collaborator only when the API
   credential is present, and at most once; without the credential the
   summary returned is the local pipeline's function of (text, customPrompt). *)
C14_RemoteOnlyWithCredential ==
    \A r \in Reqs :
        /\ req[r].calls >= 1 => apiKey
        /\ req[r].calls <= 1
        /\ (~apiKey /\ req[r].status = 200) =>
             req[r].respSummary = generateSimpleSummary(req[r].text, req[r].customPrompt)

(* C15: a remote answer with a non-empty summary field is the summary the
   request finishes with, stored as generatedSummary and returned unchanged;
   an answer without the field, or with an empty one, gives the local
   pipeline's output. *)
C15_RemoteSummaryVerbatim ==
    \A r \in Reqs :
        /\ (req[r].outcome = "summary" /\ req[r].status = 200) =>
             /\ req[r].respSummary = StrRemoteSummary
             /\ \E i \in DOMAIN store :
                  store[i].id = req[r].id /\ store[i].generatedSummary = StrRemoteSummary
        /\ (req[r].outcome = "nofield" /\ req[r].status = 200) =>
             /\ req[r].respSummary = generateSimpleSummary(req[r].text, req[r].customPrompt)
             /\ \E i \in DOMAIN store :
                  /\ store[i].id = req[r].id
                  /\ store[i].generatedSummary
                       = generateSimpleSummary(req[r].text, req[r].customPrompt)

(* The prompt is given and holds the word at some position, letter case
   ignored. *)
Mentions(prompt, word) ==
    /\ prompt # Undefined
    /\ \E i \in 1 .. Len(prompt) - Len(word) + 1 :
          \A j \in 1 .. Len(word) :
              \/ prompt[i + j - 1] = word[j]
              \/ \E u \in DOMAIN UpperLetters :
                    prompt[i + j - 1] = UpperLetters[u] /\ word[j] = LowerLetters[u]

(* The modes whose condition, as the claim words it, the prompt meets. *)
ModesOf(prompt) ==
    { m \in { "bullet", "action", "default" } :
        \/ m = "bullet" /\ Mentions(prompt, StrBullet)
        \/ m = "action" /\ Mentions(prompt, StrAction) /\ ~Mentions(prompt, StrBullet)
        \/ m = "default" /\ (prompt = Undefined
                               \/ (~Mentions(prompt, StrBullet) /\ ~Mentions(prompt, StrAction))) }

(* The sentences at the positions of a set, in the order of the positions. *)
AtPositions(sents, P) ==
    [ k \in 1 .. Cardinality(P) |->
        sents[CHOOSE i \in P : Cardinality({ q \in P : q < i }) = k - 1] ]

(* Each sentence trimmed and prefixed with the bullet, one per line. *)
RECURSIVE Bulleted(_)
Bulleted(sents) ==
    IF sents = << >> THEN << >>
    ELSE << Bullet, " " >> \o trim(Head(sents))
           \o (IF Len(sents) = 1 THEN << >> ELSE << "\n" >> \o Bulleted(Tail(sents)))

(* The positions of the sentences holding an action marker. *)
MarkerPositions ==
    { i \in DOMAIN sentences :
        \E w \in { StrWill, StrGoingTo, StrPlanTo, StrNeedTo, StrShould, StrMust } :
            Mentions(sentences[i], w) }

(* C16: exactly one mode applies to a prompt: bullet when it names "bullet"
   in any letter case, also next to "action"; action when it names "action"
   and not "bullet"; default otherwise. The output is rendered in that mode:
   the keyword sentences as bullets, the marker sentences as bullets, or the
   keyword sentences joined by a space. *)
C16_ModePriority ==
    returned =>
        /\ Cardinality(ModesOf(customPrompt)) = 1
        /\ LET mode == CHOOSE m \in ModesOf(customPrompt) : TRUE
               expected ==
                   CASE mode = "bullet" -> Bulleted(keySentences)
                     [] mode = "action" -> Bulleted(AtPositions(sentences, MarkerPositions))
                     [] mode = "default" -> join(keySentences, << " " >>)
           IN  expected # << >> => summary = expected

(* C16's case: a prompt naming both words, in capitals, over a transcript
   whose bullet, action and default renderings all differ. *)
C16_Witness ==
    /\ returned
    /\ Mentions(customPrompt, StrBullet) /\ Mentions(customPrompt, StrAction)
    /\ ~includes(customPrompt, StrBullet) /\ ~includes(customPrompt, StrAction)
    /\ MarkerPositions # { }
    /\ Cardinality(MarkerPositions) # Len(keySentences)
    /\ summary = Bulleted(keySentences)

(* The positions, in the transcript split at its sentence ends, of the
   fragments longer than 10 characters that hold a keyword. *)
KeywordPositions ==
    { i \in DOMAIN split(text, SentenceEnd) :
        /\ Len(trim(split(text, SentenceEnd)[i])) > MinSentenceLen
        /\ \E k \in DOMAIN keywords :
              Mentions(split(text, SentenceEnd)[i], keywords[k]) }

(* C17: the keyword selection is the first (at most 5) fragments of the
   transcript, in transcript order and each position once, that are longer
   than 10 characters trimmed and hold a keyword in lower case. *)
C17_KeywordSelection ==
    returned =>
        LET first == { i \in KeywordPositions :
                         Cardinality({ q \in KeywordPositions : q < i }) < MaxKeySentences }
        IN  keySentences = AtPositions(split(text, SentenceEnd), first)

(* C17's case: more than 5 qualifying sentences, 5 selected, and a fragment
   left out for its length. *)
C17_Witness ==
    /\ returned
    /\ Cardinality(KeywordPositions) > MaxKeySentences
    /\ Len(keySentences) = MaxKeySentences
    /\ Len(split(text, SentenceEnd)) > Cardinality(KeywordPositions)

StrBulletWill ==
    << Bullet, " ", "W", "e", " ", "w", "i", "l", "l", " ", "f", "i", "n", "i", "s", "h", " ",
       "t", "h", "e", " ", "r", "e", "p", "o", "r", "t", "\n", Bullet, " ", "W", "e", " ", "s",
       "h", "o", "u", "l", "d", " ", "c", "a", "l", "l", " ", "t", "h", "e", " ", "c", "l",
       "i", "e", "n", "t" >>

(* C18: in action mode with a marker sentence, the output is every sentence
   holding an action marker (letter case ignored, however many, whatever the
   keywords), in transcript order, trimmed, prefixed with the bullet, one per
   line; "This is a test. We will finish the report. We should call the
   client." with "give me action items" gives the two bullets of the "will"
   and "should" sentences. *)
C18_ActionModeAllMarkers ==
    (returned /\ ModesOf(customPrompt) = { "action" } /\ MarkerPositions # { }) =>
        /\ summary = Bulleted(AtPositions(sentences, MarkerPositions))
        /\ (text = (PieceTest \o PieceActions) /\ customPrompt = PromptActions) =>
             summary = StrBulletWill

(* C18's case: action mode, more marker sentences than the cap of the keyword
   path, all of them in the output. *)
C18_Witness ==
    /\ returned /\ ModesOf(customPrompt) = { "action" }
    /\ Cardinality(MarkerPositions) > MaxKeySentences
    /\ Cardinality({ i \in DOMAIN summary : summary[i] = Bullet }) = Cardinality(MarkerPositions)

(* C19: when the page displays the summary of a successful Generate and Save
   Edits has sent a non-empty edited text (the database answering), the PUT
   went to the id of the record that Generate created, that record's
   editedSummary is the edited text, and the page reports the update. *)
C19_SaveEditsReachesRecord ==
    (client.shown # 0 /\ client.put.status # 0 /\ client.put.dbOk) =>
        /\ client.put.id = req[client.shown].id
        /\ \E i \in DOMAIN store :
              /\ store[i].id = req[client.shown].id
              /\ store[i].editedSummary = client.put.editedSummary
        /\ client.success = "Summary updated successfully!"

(* The summary of a request as its own text, prompt and remote outcome
   determine it on the server that runs. *)
OwnSummary(q) ==
    CASE q.outcome = "summary" -> StrRemoteSummary
      [] q.outcome = "nofield" /\ variant = "groq" -> StrUnable
      [] OTHER -> generateSimpleSummary(q.text, q.customPrompt)

(* C20: under every interleaving of the Generate requests, a request's
   summary, returned and stored, is determined by its own text, prompt and
   remote outcome; it has its own record; and a step of one request changes
   nothing of another request and no record that exists. *)
C20_RequestsIndependent ==
    [][ \A r \in Reqs :
          req'[r] # req[r] =>
              /\ \A q \in Reqs \ { r } : req'[q] = req[q]
              /\ \A i \in DOMAIN store : store'[i] = store[i]
              /\ Len(store') <= Len(store) + 1
              /\ LET own == OwnSummary(req'[r])
                 IN  /\ req'[r].tier # "none" => req'[r].summary = own
                     /\ req'[r].status = 200 =>
                          /\ req'[r].respSummary = own
                          /\ Len(store') = Len(store) + 1
                          /\ LET doc == store'[Len(store')]
                             IN  /\ doc.id = req'[r].id
                                 /\ doc.originalText = req'[r].text
                                 /\ doc.customPrompt = req'[r].customPrompt
                                 /\ doc.generatedSummary = own
                                 /\ \A q \in Reqs \ { r } :
                                       req[q].status = 200 => doc.id # req[q].id ]_vars

(* C20's case: two requests with different transcripts in flight at once, one
   suspended at its remote call, the other resumed with its local summary;
   and, later, both stored. *)
C20_Witness ==
    /\ req[1].text # req[2].text
    /\ req[1].calls = 1 /\ req[2].calls = 1
    /\ req[1].tier = "local" /\ req[1].pc = "save"
    /\ req[2].pc = "remote"

====
